---- MODULE Spec2Model ----
(***************************************************************************)
(* UbuntuImageFetcher (src/pythonLibraries.py): filename derivation,       *)
(* response validation, content deduplication, on-disk collision           *)
(* resolution and the sequential batch loop.                               *)
(*                                                                         *)
(* Strings are sequences of one-character strings.  A header or argument   *)
(* that is absent (Python None) is the one-element sequence None, which is *)
(* no string of the program.                                               *)
(***************************************************************************)
EXTENDS Integers, Sequences, FiniteSets, TLC

VARIABLES
    pc,                 \* position of the running operation
    urls_arg,           \* the argument of fetch_images: [is_str, val]
    urls,               \* the local list `urls` of fetch_images
    idx,                \* number of loop iterations of fetch_images done
    successful,         \* local `successful` of fetch_images
    total,              \* local `total` of fetch_images
    downloaded_hashes,  \* self.downloaded_hashes: digest -> filename
    dir,                \* the entries of self.download_dir: name -> bytes
    log,                \* history: one record per call of fetch_single_image
    last,               \* history: the latest call of fetch_single_image in full
    call,               \* argument record of the function under study
    ret                 \* its returned value

vars == <<pc, urls_arg, urls, idx, successful, total, downloaded_hashes, dir,
          log, last, call, ret>>

----------------------------------------------------------------------------
(* Bounds of the model.                                                    *)

MaxPieces == 3      \* pieces concatenated after "http://x" to form a URL
MaxUrls == 2        \* entries of the argument of fetch_images
MaxProbe == 2       \* suffixed names stem_1 .. stem_MaxProbe a directory may pre-hold

----------------------------------------------------------------------------
(* Strings.                                                                *)

None == <<"\\None">>
NotRun == <<"\\NotRun">>

RECURSIVE Find(_, _, _)
\* s.find(c, start) with 1-based positions; 0 when c does not occur
Find(s, c, start) ==
    IF start > Len(s) THEN 0
    ELSE IF s[start] = c THEN start
    ELSE Find(s, c, start + 1)

RECURSIVE RFindFrom(_, _, _)
RFindFrom(s, c, k) ==
    IF k = 0 THEN 0
    ELSE IF s[k] = c THEN k
    ELSE RFindFrom(s, c, k - 1)

\* s.rfind(c) with 1-based positions; 0 when c does not occur
RFind(s, c) == RFindFrom(s, c, Len(s))

\* s[k:] for a 1-based k
From(s, k) == SubSeq(s, k, Len(s))

Contains(s, c) == \E k \in 1..Len(s) : s[k] = c

StartsWith(s, p) == Len(s) >= Len(p) /\ SubSeq(s, 1, Len(p)) = p


UpperCase == <<"A","B","C","D","E","F","G","H","I","J","K","L","M",
               "N","O","P","Q","R","S","T","U","V","W","X","Y","Z">>
LowerCase == <<"a","b","c","d","e","f","g","h","i","j","k","l","m",
               "n","o","p","q","r","s","t","u","v","w","x","y","z">>
Digits == <<"0","1","2","3","4","5","6","7","8","9">>

\* the lower-case letter of every upper-case letter
ToLower ==
    [c \in {UpperCase[k] : k \in 1..26} |->
        LowerCase[CHOOSE k \in 1..26 : UpperCase[k] = c]]

LowerChar(c) == IF c \in DOMAIN ToLower THEN ToLower[c] ELSE c

\* str.lower()
Lower(s) == [k \in 1..Len(s) |-> LowerChar(s[k])]

\* characters str.strip() removes (those of them the inputs use)
Whitespace == {" ", "\\n"}

RECURSIVE LStrip(_, _)
\* s.lstrip(chars)
LStrip(s, chars) ==
    IF s # <<>> /\ Head(s) \in chars THEN LStrip(Tail(s), chars) ELSE s

RECURSIVE RStrip(_, _)
\* s.rstrip(chars)
RStrip(s, chars) ==
    IF s # <<>> /\ s[Len(s)] \in chars
    THEN RStrip(SubSeq(s, 1, Len(s) - 1), chars) ELSE s

\* str.strip()
Strip(s) == RStrip(LStrip(s, Whitespace), Whitespace)

RECURSIVE IntToStr(_)
\* f"{counter}" for counter >= 0
IntToStr(n) ==
    IF n < 10 THEN <<Digits[n + 1]>>
    ELSE IntToStr(n \div 10) \o <<Digits[(n % 10) + 1]>>

\* the value of every decimal digit
DigitValue == [c \in {Digits[k] : k \in 1..10} |-> (CHOOSE k \in 1..10 : Digits[k] = c) - 1]

IsDigit(c) == c \in DOMAIN DigitValue
DigitVal(c) == DigitValue[c]

RECURSIVE ParseDigits(_, _)
ParseDigits(s, acc) ==
    IF s = <<>> THEN acc ELSE ParseDigits(Tail(s), 10 * acc + DigitVal(Head(s)))

\* int(s): the value, or -1 where int raises ValueError (signs, blanks and
\* underscores, which int also accepts, are not among the header values used)
ParseInt(s) ==
    IF s # <<>> /\ \A k \in 1..Len(s) : IsDigit(s[k]) THEN ParseDigits(s, 0) ELSE -1

----------------------------------------------------------------------------
(* urlparse(url).path, os.path.basename, unquote                           *)

Letters == {UpperCase[k] : k \in 1..26} \cup {LowerCase[k] : k \in 1..26}
scheme_chars == Letters \cup {Digits[k] : k \in 1..10} \cup {"+", "-", "."}

\* C0 controls and space, stripped from the left by urlsplit
C0ControlOrSpace == {" ", "\\n", "\\x00", "\\x02", "\\x0e", "\\x0f"}

\* urlsplit: drop a leading scheme
AfterScheme(url) ==
    LET i == Find(url, ":", 1)
    IN  IF i > 1 /\ url[1] \in Letters
           /\ \A k \in 1..(i - 1) : url[k] \in scheme_chars
        THEN From(url, i + 1)
        ELSE url

\* urlsplit / _splitnetloc: drop "//netloc"
AfterNetloc(u) ==
    IF Len(u) >= 2 /\ SubSeq(u, 1, 2) = <<"/", "/">>
    THEN LET ds == {Find(u, c, 3) : c \in {"/", "?", "#"}} \ {0}
         IN  IF ds = {} THEN <<>>
             ELSE From(u, CHOOSE k \in ds : \A j \in ds : k <= j)
    ELSE u

\* s.split(c, 1)[0]
Before(s, c) ==
    LET i == Find(s, c, 1) IN IF i = 0 THEN s ELSE SubSeq(s, 1, i - 1)

\* urlparse / _splitparams: drop ";params" of the last segment
SplitParams(u) ==
    IF ~Contains(u, ";") THEN u
    ELSE IF Contains(u, "/")
         THEN LET i == Find(u, ";", RFind(u, "/"))
              IN  IF i = 0 THEN u ELSE SubSeq(u, 1, i - 1)
         ELSE SubSeq(u, 1, Find(u, ";", 1) - 1)

NotNewline(c) == c # "\\n"

\* urlparse(url).path
UrlPath(url) ==
    LET u0 == LStrip(url, C0ControlOrSpace)
        u1 == SelectSeq(u0, NotNewline)
    IN  SplitParams(Before(Before(AfterNetloc(AfterScheme(u1)), "#"), "?"))

\* os.path.basename(p)
Basename(p) == From(p, RFind(p, "/") + 1)

HexDigits == {Digits[k] : k \in 1..10}
              \cup {"a", "b", "c", "d", "e", "f", "A", "B", "C", "D", "E", "F"}

HexVal(c) ==
    IF IsDigit(c) THEN DigitVal(c)
    ELSE CASE c \in {"a", "A"} -> 10 [] c \in {"b", "B"} -> 11
           [] c \in {"c", "C"} -> 12 [] c \in {"d", "D"} -> 13
           [] c \in {"e", "E"} -> 14 [] c \in {"f", "F"} -> 15

\* the character a lone decoded byte becomes under decode('utf-8', 'replace')
ByteChar(b) ==
    CASE b = 0 -> "\\x00"
      [] b = 2 -> "\\x02"
      [] b = 10 -> "\\n"
      [] b = 14 -> "\\x0e"
      [] b = 15 -> "\\x0f"
      [] b = 32 -> " "
      [] b = 34 -> "\""
      [] b = 42 -> "*"
      [] b = 46 -> "."
      [] b = 47 -> "/"
      [] b >= 128 -> "\\ufffd"
      [] OTHER -> "\\other"

RECURSIVE Unquote(_)
\* urllib.parse.unquote(s): every %XX escape becomes its character
Unquote(s) ==
    IF s = <<>> THEN <<>>
    ELSE IF Head(s) = "%" /\ Len(s) >= 3 /\ s[2] \in HexDigits /\ s[3] \in HexDigits
         THEN <<ByteChar(16 * HexVal(s[2]) + HexVal(s[3]))>> \o Unquote(From(s, 4))
         ELSE <<Head(s)>> \o Unquote(Tail(s))

----------------------------------------------------------------------------
(* get_safe_filename and _get_extension_from_content_type                  *)

\* the string safe_chars of line 35
safe_chars == LowerCase \o UpperCase \o Digits \o <<".", "-", "_">>

\* its characters
SafeCharSet == {safe_chars[k] : k \in 1..Len(safe_chars)}

\* an allow-list that lets the path separator through
SanitizeKeepSlash(filename) ==
    [k \in 1..Len(filename) |->
        IF filename[k] \in SafeCharSet \cup {"/"} THEN filename[k] ELSE "_"]

extensions(ct) ==
    CASE ct = <<"i","m","a","g","e","/","j","p","e","g">> -> <<".","j","p","g">>
      [] ct = <<"i","m","a","g","e","/","p","n","g">> -> <<".","p","n","g">>
      [] ct = <<"i","m","a","g","e","/","g","i","f">> -> <<".","g","i","f">>
      [] ct = <<"i","m","a","g","e","/","w","e","b","p">> -> <<".","w","e","b","p">>
      [] ct = <<"i","m","a","g","e","/","b","m","p">> -> <<".","b","m","p">>
      [] ct = <<"i","m","a","g","e","/","s","v","g","+","x","m","l">> -> <<".","s","v","g">>
      [] OTHER -> <<".","j","p","g">>

get_extension_from_content_type(content_type) ==
    IF content_type = None \/ content_type = <<>>
    THEN <<".","j","p","g">>
    ELSE extensions(Lower(content_type))

downloaded_image == <<"d","o","w","n","l","o","a","d","e","d","_","i","m","a","g","e">>

\* ''.join(c if c in safe_chars else '_' for c in filename)
Sanitize(filename) ==
    [k \in 1..Len(filename) |->
        IF filename[k] \in SafeCharSet THEN filename[k] ELSE "_"]

\* the filename before sanitization
Candidate(url, content_type) ==
    LET filename == Unquote(Basename(UrlPath(url)))
    IN  IF filename = <<>> \/ ~Contains(filename, ".")
        THEN downloaded_image \o get_extension_from_content_type(content_type)
        ELSE filename

get_safe_filename(url, content_type) == Sanitize(Candidate(url, content_type))

----------------------------------------------------------------------------
(* get_unique_filename.  A directory is a function from the names of its   *)
(* entries to their bytes.                                                 *)

Dot == <<".">>
DotDot == <<".", ".">>

\* the default download_dir, "Fetched_Images"
download_dir == <<"F","e","t","c","h","e","d","_","I","m","a","g","e","s">>

\* (self.download_dir / filename).name: pathlib drops a "." component, so
\* the path of "." is the directory itself
PathName(filename) == IF filename = Dot THEN download_dir ELSE filename

\* (self.download_dir / filename).exists(): "." and ".." name the directory
\* and its parent, which exist
Exists(dirv, filename) == filename \in {Dot, DotDot} \/ filename \in DOMAIN dirv

\* PurePath.suffix of a path with this name (Python 3.11)
PathSuffix(name) ==
    LET i == RFind(name, ".")
    IN  IF 1 < i /\ i < Len(name) THEN From(name, i) ELSE <<>>

\* PurePath.stem of a path with this name (Python 3.11)
PathStem(name) ==
    LET i == RFind(name, ".")
    IN  IF 1 < i /\ i < Len(name) THEN SubSeq(name, 1, i - 1) ELSE name

\* f"{stem}_{counter}{suffix}"
Suffixed(stem, counter, suffix) == stem \o <<"_">> \o IntToStr(counter) \o suffix

RECURSIVE Probe(_, _, _, _)
\* the while True loop of get_unique_filename
Probe(dirv, stem, suffix, counter) ==
    LET new_filename == Suffixed(stem, counter, suffix)
    IN  IF ~Exists(dirv, new_filename) THEN new_filename
        ELSE Probe(dirv, stem, suffix, counter + 1)

\* a get_unique_filename that never probes
UniqueNoProbe(dirv, filename) == filename

get_unique_filename(dirv, filename) ==
    IF ~Exists(dirv, filename) THEN filename
    ELSE Probe(dirv, PathStem(PathName(filename)), PathSuffix(PathName(filename)), 1)

----------------------------------------------------------------------------
(* calculate_file_hash, is_duplicate_content                               *)

\* hashlib.sha256(content).hexdigest(): modelled as collision-free on the
\* payloads of the model, and as a value of another type than the payload
calculate_file_hash(content) == [sha256 |-> content]

\* an is_duplicate_content whose index keeps the last filename seen
DuplicateLastWins(hashes, content, filename) ==
    LET file_hash == calculate_file_hash(content)
    IN  [dup |-> file_hash \in DOMAIN hashes,
         existing |-> IF file_hash \in DOMAIN hashes THEN hashes[file_hash] ELSE None,
         hashes |-> [h \in DOMAIN hashes \cup {file_hash} |->
                        IF h = file_hash THEN filename ELSE hashes[h]]]

\* is_duplicate_content: [dup: the returned value, existing: the filename
\* printed, hashes: self.downloaded_hashes afterwards]
is_duplicate_content(hashes, content, filename) ==
    LET file_hash == calculate_file_hash(content)
    IN  IF file_hash \in DOMAIN hashes
        THEN [dup |-> TRUE, existing |-> hashes[file_hash], hashes |-> hashes]
        ELSE [dup |-> FALSE, existing |-> None,
              hashes |-> [h \in DOMAIN hashes \cup {file_hash} |->
                             IF h = file_hash THEN filename ELSE hashes[h]]]

----------------------------------------------------------------------------
(* validate_image_response                                                 *)

max_file_size == 50 * 1024 * 1024

image_slash == <<"i","m","a","g","e","/">>

\* a validation that accepts every Content-Type
ValidateAnyType(ct_header, cl_header) ==
    [ok |-> TRUE,
     content_type |-> Lower(IF ct_header = None THEN <<>> ELSE ct_header)]

\* validate_image_response on the two headers (None: header absent):
\* [ok: no ValueError raised, content_type: the returned value]
validate_image_response(ct_header, cl_header) ==
    LET content_type == Lower(IF ct_header = None THEN <<>> ELSE ct_header)
    IN  IF ~StartsWith(content_type, image_slash)
        THEN [ok |-> FALSE, content_type |-> content_type]
        ELSE IF cl_header # None /\ cl_header # <<>>
                /\ (ParseInt(cl_header) = -1 \/ ParseInt(cl_header) > max_file_size)
             THEN [ok |-> FALSE, content_type |-> content_type]
             ELSE [ok |-> TRUE, content_type |-> content_type]

----------------------------------------------------------------------------
(* fetch_single_image.  The server and the disk are the environment: a     *)
(* response resp is [status, ct, cl, body, disk], with ct and cl the       *)
(* Content-Type and Content-Length headers (None: absent), body the        *)
(* payload, and disk what happens when the file is opened and written.     *)

EmptyMap == [h \in {} |-> <<>>]

\* the exception requests.get / raise_for_status raise for a status
RequestError(status) ==
    CASE status = "timeout" -> "Timeout"
      [] status = "connection_error" -> "ConnectionError"
      [] status = "http_error" -> "HTTPError"
      [] OTHER -> "none"

\* a handler list without the final `except Exception`
ExceptNoCatchAll(exc) ==
    IF exc \in {"Timeout", "ConnectionError", "HTTPError", "ValueError"}
    THEN exc ELSE "uncaught"

\* the except clause of fetch_single_image that handles an exception
except_clause(exc) ==
    CASE exc = "Timeout" -> "Timeout"
      [] exc = "ConnectionError" -> "ConnectionError"
      [] exc = "HTTPError" -> "HTTPError"
      [] exc = "ValueError" -> "ValueError"
      [] OTHER -> "Exception"

\* with open(filepath, 'wb') as f: f.write(content)
\* [exc: the exception raised, dir: the directory afterwards]
WriteFile(dirv, name, content, disk) ==
    IF name \in {Dot, DotDot} \/ disk = "open_fails"
    THEN [exc |-> "OSError", dir |-> dirv]
    ELSE [exc |-> IF disk = "write_fails" THEN "OSError" ELSE "none",
          dir |-> [n \in DOMAIN dirv \cup {name} |->
                     IF n # name THEN dirv[n]
                     ELSE IF disk = "write_fails" THEN <<>> ELSE content]]

\* the record of one call that got no further than the request
Attempt(url, resp, dirv, hashes) ==
    [url |-> url, status |-> resp.status, ct |-> None, cl |-> None,
     body_read |-> FALSE, content |-> None, filename |-> None,
     dedupe |-> FALSE, dup_of |-> None, written |-> None,
     exc |-> "none", handler |-> "none", result |-> FALSE,
     dir_before |-> dirv, hashes_before |-> hashes]

\* what the history keeps of every call
Slim(a) ==
    [url |-> a.url, dedupe |-> a.dedupe, content |-> a.content,
     filename |-> a.filename, dup_of |-> a.dup_of, written |-> a.written,
     result |-> a.result]

\* fetch_single_image(url) against response resp:
\* [entry: what the call did, dir, hashes: the state afterwards]
fetch_single_image(url, resp, dirv, hashes) ==
    LET a0 == Attempt(url, resp, dirv, hashes)
        v == validate_image_response(resp.ct, resp.cl)
        filename == get_safe_filename(url, v.content_type)
        d == is_duplicate_content(hashes, resp.body, filename)
        unique == get_unique_filename(dirv, filename)
        w == WriteFile(dirv, unique, resp.body, resp.disk)
        a1 == [a0 EXCEPT !.ct = resp.ct, !.cl = resp.cl]
        a2 == [a1 EXCEPT !.body_read = TRUE, !.content = resp.body,
                         !.filename = filename, !.dedupe = TRUE]
    IN  IF resp.status # "ok"
        THEN [entry |-> [a0 EXCEPT !.exc = RequestError(resp.status),
                                   !.handler = except_clause(RequestError(resp.status))],
              dir |-> dirv, hashes |-> hashes]
        ELSE IF ~v.ok
        THEN [entry |-> [a1 EXCEPT !.exc = "ValueError",
                                   !.handler = except_clause("ValueError")],
              dir |-> dirv, hashes |-> hashes]
        ELSE IF d.dup
        THEN [entry |-> [a2 EXCEPT !.dup_of = d.existing],
              dir |-> dirv, hashes |-> d.hashes]
        ELSE IF w.exc # "none"
        THEN [entry |-> [a2 EXCEPT !.exc = w.exc, !.handler = except_clause(w.exc)],
              dir |-> w.dir, hashes |-> d.hashes]
        ELSE [entry |-> [a2 EXCEPT !.written = unique, !.result = TRUE],
              dir |-> w.dir, hashes |-> d.hashes]

----------------------------------------------------------------------------
(* The inputs of the model.                                                *)

Payloads == {<<1>>, <<2>>}

text_html == <<"t","e","x","t","/","h","t","m","l">>
Image_PNG == <<"I","m","a","g","e","/","P","N","G">>
image_png == <<"i","m","a","g","e","/","p","n","g">>

ContentTypes == {None, Image_PNG, text_html}

\* 50 MiB and one byte more, as header values, and a header that is no number
Len50MiB == <<"5","2","4","2","8","8","0","0">>
Len50MiB1 == <<"5","2","4","2","8","8","0","1">>
ContentLengths == {None, Len50MiB, Len50MiB1, <<"x">>}

\* No response, or a 2xx response.  What fetch_single_image never looks at
\* (the headers without a response, the body and the disk after a failed
\* validation) is fixed to one value: every other value behaves the same.
Responses ==
    {[status |-> s, ct |-> None, cl |-> None, body |-> <<>>, disk |-> "ok"] :
        s \in {"timeout", "connection_error", "http_error"}}
      \cup {r \in [status : {"ok"}, ct : ContentTypes, cl : ContentLengths,
                   body : Payloads \cup {<<>>}, disk : {"ok", "open_fails", "write_fails"}] :
              IF validate_image_response(r.ct, r.cl).ok
              THEN r.body \in Payloads
              ELSE r.body = <<>> /\ r.disk = "ok"}

http_x == <<"h","t","t","p",":","/","/","x">>
a_png == <<"a",".","p","n","g">>
a_1_png == <<"a","_","1",".","p","n","g">>

\* the entries between the commas of the argument of fetch_images
Entries ==
    { <<>>, <<" ">>, http_x \o <<"/">> \o a_png, <<" ">> \o http_x \o <<"/","b"," ">> }

SeqsUpTo(S, n) == UNION {[1..k -> S] : k \in 0..n}

RECURSIVE Join(_, _)
\* sep.join(parts)
Join(parts, sep) ==
    IF parts = <<>> THEN <<>>
    ELSE IF Len(parts) = 1 THEN parts[1]
    ELSE parts[1] \o sep \o Join(Tail(parts), sep)

RECURSIVE Split(_, _)
\* s.split(c)
Split(s, c) ==
    LET i == Find(s, c, 1)
    IN  IF i = 0 THEN <<s>> ELSE <<SubSeq(s, 1, i - 1)>> \o Split(From(s, i + 1), c)

\* the arguments of fetch_images: a comma-separated string, or a list
Arguments ==
    {[is_str |-> TRUE, val |-> Join(es, <<",">>)] : es \in SeqsUpTo(Entries, MaxUrls)}
      \cup {[is_str |-> FALSE, val |-> es] : es \in SeqsUpTo(Entries, MaxUrls)}

\* the output directory before the run: empty, or holding a.png
InitialDirs == {EmptyMap, [n \in {a_png} |-> <<2>>]}

----------------------------------------------------------------------------
(* fetch_images                                                            *)

Idle == /\ call = NotRun
        /\ ret = NotRun

Init ==
    /\ pc = "fetch_images"
    /\ urls_arg \in Arguments
    /\ urls = <<>>
    /\ idx = 0
    /\ successful = 0
    /\ total = 0
    /\ downloaded_hashes = EmptyMap
    /\ dir \in InitialDirs
    /\ log = <<>>
    /\ last = NotRun
    /\ Idle

\* lines 181-185
FetchImagesStart ==
    /\ pc = "fetch_images"
    /\ urls' = IF urls_arg.is_str
               THEN LET parts == Split(urls_arg.val, ",")
                    IN  [k \in 1..Len(parts) |-> Strip(parts[k])]
               ELSE urls_arg.val
    /\ successful' = 0
    /\ total' = Len(urls')
    /\ idx' = 0
    /\ pc' = "loop"
    /\ UNCHANGED <<urls_arg, downloaded_hashes, dir, log, last, call, ret>>

\* one iteration of the loop over an entry that is empty after strip()
SkipEmpty ==
    /\ pc = "loop"
    /\ idx < Len(urls)
    /\ Strip(urls[idx + 1]) = <<>>
    /\ idx' = idx + 1
    /\ UNCHANGED <<pc, urls_arg, urls, successful, total, downloaded_hashes, dir,
                   log, last, call, ret>>

\* one iteration of the loop that calls fetch_single_image
FetchOne ==
    /\ pc = "loop"
    /\ idx < Len(urls)
    /\ Strip(urls[idx + 1]) # <<>>
    /\ \E resp \in Responses :
         \E out \in {fetch_single_image(Strip(urls[idx + 1]), resp, dir, downloaded_hashes)} :
             /\ last' = out.entry
             /\ log' = Append(log, Slim(out.entry))
             /\ dir' = out.dir
             /\ downloaded_hashes' = out.hashes
             /\ IF out.entry.handler = "uncaught"
                THEN /\ pc' = "raised"
                     /\ UNCHANGED <<successful, idx>>
                ELSE /\ pc' = pc
                     /\ idx' = idx + 1
                     /\ successful' = IF out.entry.result THEN successful + 1
                                      ELSE successful
    /\ UNCHANGED <<urls_arg, urls, total, call, ret>>

\* line 193
FetchImagesReturn ==
    /\ pc = "loop"
    /\ idx = Len(urls)
    /\ pc' = "done"
    /\ ret' = <<successful, total>>
    /\ UNCHANGED <<urls_arg, urls, idx, successful, total, downloaded_hashes, dir,
                   log, last, call>>

Next == FetchImagesStart \/ SkipEmpty \/ FetchOne \/ FetchImagesReturn

Spec == Init /\ [][Next]_vars

----------------------------------------------------------------------------
(* get_safe_filename on its own: one call on a URL "http://x" + pieces     *)

Pieces ==
    { <<"a">>, <<".">>, <<"/">>, <<"%","2","E">>, <<"%","2","F">>, <<"%","0","0">>,
      <<"%">>, <<"?">>, <<";">>, <<" ">> }

IMAGE_GIF == <<"I","M","A","G","E","/","G","I","F">>

NameContentTypes == {None, image_png, IMAGE_GIF, text_html}

NameCalls ==
    {[url |-> http_x \o Join(ps, <<>>), content_type |-> ct] :
        ps \in SeqsUpTo(Pieces, MaxPieces), ct \in NameContentTypes}

NoRun ==
    /\ urls_arg = [is_str |-> FALSE, val |-> <<>>]
    /\ urls = <<>>
    /\ idx = 0
    /\ successful = 0
    /\ total = 0
    /\ downloaded_hashes = EmptyMap
    /\ log = <<>>
    /\ last = NotRun

InitName ==
    /\ pc = "get_safe_filename"
    /\ call \in NameCalls
    /\ ret = NotRun
    /\ dir = EmptyMap
    /\ NoRun

GetSafeFilename ==
    /\ pc = "get_safe_filename"
    /\ ret' = get_safe_filename(call.url, call.content_type)
    /\ pc' = "got_safe_filename"
    /\ UNCHANGED <<urls_arg, urls, idx, successful, total, downloaded_hashes, dir,
                   log, last, call>>

NextName == GetSafeFilename

SpecName == InitName /\ [][NextName]_vars

----------------------------------------------------------------------------
(* get_unique_filename on its own: one call on a directory that holds some *)
(* of the names the probe loop can meet                                    *)

p_jpg == <<"p",".","j","p","g">>

Candidates == {p_jpg, <<"p">>, <<".","p">>, <<"p",".">>, Dot, DotDot}

\* the names stem_1, stem_2, ... of a candidate and of the directory itself
Family(c) ==
    ({c} \cup {Suffixed(PathStem(c), k, PathSuffix(c)) : k \in 1..MaxProbe}
         \cup {Suffixed(download_dir, k, <<>>) : k \in 1..MaxProbe}
         \cup {<<"q">>})
      \ {Dot, DotDot}

UniqueCalls ==
    UNION {{[filename |-> c, names |-> ns] : ns \in SUBSET Family(c)} : c \in Candidates}

InitUnique ==
    /\ pc = "get_unique_filename"
    /\ call \in UniqueCalls
    /\ ret = NotRun
    /\ dir = [n \in call.names |-> <<1>>]
    /\ NoRun

GetUniqueFilename ==
    /\ pc = "get_unique_filename"
    /\ ret' = get_unique_filename(dir, call.filename)
    /\ pc' = "got_unique_filename"
    /\ UNCHANGED <<urls_arg, urls, idx, successful, total, downloaded_hashes, dir,
                   log, last, call>>

NextUnique == GetUniqueFilename

SpecUnique == InitUnique /\ [][NextUnique]_vars

----------------------------------------------------------------------------
(* The claims.                                                             *)

\* the entries of the argument of fetch_images, trimmed, without the empty ones
RECURSIVE NonEmpty(_)
NonEmpty(es) ==
    IF es = <<>> THEN <<>>
    ELSE IF Strip(Head(es)) = <<>> THEN NonEmpty(Tail(es))
    ELSE <<Strip(Head(es))>> \o NonEmpty(Tail(es))

InputEntries == IF urls_arg.is_str THEN Split(urls_arg.val, ",") ELSE urls_arg.val

Successes == Cardinality({k \in 1..Len(log) : log[k].result})

\* C1: fetch_images returns (successCount, totalCount) with totalCount the
\* number of non-empty URLs attempted; for "" it returns total = 0,
\* successCount = 0 and attempts nothing.
C1_TotalCountsAttempts ==
    pc = "done" =>
        /\ ret = <<Successes, Len(log)>>
        /\ Len(log) = Len(NonEmpty(InputEntries))

\* the first call that reached the deduplication step with the payload of call j
FirstWith(j) ==
    CHOOSE i \in 1..j :
        /\ log[i].dedupe /\ log[i].content = log[j].content
        /\ \A h \in 1..(i - 1) : ~(log[h].dedupe /\ log[h].content = log[j].content)

\* C2: of two fetches that reach the deduplication step with identical
\* payloads, the later is reported as a duplicate of the filename recorded for
\* the earlier, writes no file and returns false, whatever its own candidate
\* filename; the entry of a hash is the filename of the first fetch with that
\* payload and is never replaced.
C2_FirstSeenWins ==
    \A j \in 1..Len(log) :
        log[j].dedupe =>
            LET f == FirstWith(j)
                h == calculate_file_hash(log[j].content)
            IN  /\ h \in DOMAIN downloaded_hashes
                /\ downloaded_hashes[h] = log[f].filename
                /\ f < j => /\ log[j].dup_of = log[f].filename
                            /\ log[j].written = None
                            /\ ~log[j].result

\* C2 witness: a later fetch with the same payload and another candidate
\* filename was reported as a duplicate of the first one's filename
C2_Witness ==
    \E i, j \in 1..Len(log) :
        /\ i < j
        /\ log[i].dedupe /\ log[j].dedupe
        /\ log[i].content = log[j].content
        /\ log[i].filename # log[j].filename
        /\ log[j].dup_of = log[i].filename

\* the allow-list A-Z, a-z, 0-9, '.', '-', '_'
AllowList == Letters \cup DOMAIN DigitValue \cup {".", "-", "_"}

\* C3: every character of the filename get_safe_filename returns is in the
\* allow-list, every other character of the candidate was replaced by '_',
\* and the filename is not empty.
C3_OnlyAllowedCharacters ==
    pc = "got_safe_filename" =>
        LET c == Candidate(call.url, call.content_type)
        IN  /\ ret # <<>>
            /\ Len(ret) = Len(c)
            /\ \A k \in 1..Len(ret) :
                 /\ ret[k] \in AllowList
                 /\ ret[k] = IF c[k] \in AllowList THEN c[k] ELSE "_"

\* C3 witness: the candidate of http://x/%2F. holds a percent-decoded path
\* separator, which was replaced
C3_Witness ==
    /\ pc = "got_safe_filename"
    /\ Candidate(call.url, call.content_type) = <<"/", ".">>
    /\ ret = <<"_", ".">>

ControlChars == {"\\x00", "\\x02", "\\n", "\\x0e", "\\x0f"}

\* C4: the filename get_safe_filename returns holds no path separator and no
\* control character and is no traversal sequence: it is never "." or "..".
C4_NoTraversal ==
    pc = "got_safe_filename" =>
        /\ \A k \in 1..Len(ret) : ret[k] \notin {"/", "\\"} \cup ControlChars
        /\ ret \notin {Dot, DotDot}

\* C5: every failure of one URL becomes a false outcome of fetch_single_image
\* and never leaves fetch_images: the non-empty URLs are attempted once each,
\* in input order, and successCount is the number of true outcomes.
C5_BatchNeverAborts ==
    /\ pc # "raised"
    /\ log # <<>> =>
         /\ last.handler # "uncaught"
         /\ (last.status # "ok" \/ last.exc # "none") => ~last.result
    /\ pc \in {"loop", "done"} =>
         /\ [k \in 1..Len(log) |-> log[k].url] = NonEmpty(SubSeq(InputEntries, 1, idx))
         /\ successful = Successes
    /\ pc = "done" =>
         /\ idx = Len(InputEntries)
         /\ ret[1] = Successes

\* C5 witness: the batch is over, its first URL failed at the disk write and
\* its second URL was fetched
C5_Witness ==
    /\ pc = "done"
    /\ Len(log) = 2
    /\ log[1].dedupe /\ log[1].dup_of = None /\ ~log[1].result
    /\ log[2].result

\* the rejections of validation, stated on the headers
NotAnImage(ct) == ct = None \/ ~StartsWith(Lower(ct), <<"i","m","a","g","e","/">>)
Above50MiB(cl) == cl # None /\ ParseInt(cl) > 52428800

\* C6: a response whose Content-Type does not start with "image/" (case
\* ignored, absent included) or whose Content-Length is above 50 MiB fails at
\* validation: false, body not read, no file written, index unchanged; a
\* Content-Length of exactly 50 MiB is accepted.
C6_ValidationRejects ==
    (log # <<>> /\ last.status = "ok") =>
        /\ (NotAnImage(last.ct) \/ Above50MiB(last.cl)) =>
              /\ ~last.result
              /\ ~last.body_read
              /\ last.exc = "ValueError"
              /\ dir = last.dir_before
              /\ downloaded_hashes = last.hashes_before
        /\ (~NotAnImage(last.ct) /\ last.cl = Len50MiB) => last.body_read

\* C6 witness: an image of 50 MiB and one byte is rejected while the index and
\* the directory hold something
C6_Witness ==
    /\ log # <<>> /\ last.status = "ok"
    /\ last.ct = Image_PNG /\ last.cl = Len50MiB1
    /\ ~last.result
    /\ downloaded_hashes # EmptyMap
    /\ dir # EmptyMap

\* stem_k.ext for a candidate stem.ext
Probed(c, k) == Suffixed(PathStem(c), k, PathSuffix(c))

\* C7: get_unique_filename returns the candidate when nothing of that name
\* exists, otherwise stem_k.ext for the smallest k >= 1 that does not exist;
\* the returned name never names an existing entry.
C7_SmallestFreeSuffix ==
    pc = "got_unique_filename" =>
        LET c == call.filename
        IN  /\ ~Exists(dir, ret)
            /\ IF ~Exists(dir, c) THEN ret = c
               ELSE \E k \in 1..(Cardinality(DOMAIN dir) + 1) :
                      /\ ret = Probed(c, k)
                      /\ \A j \in 1..(k - 1) : Exists(dir, Probed(c, j))

\* C8: a fetch that returns true writes its bytes under a name that did not
\* exist, adds exactly that file and leaves every other file as it was; a
\* fetch rejected at validation or a duplicate adds no file; no name is
\* written twice in a run.
C8_NoFileOverwritten ==
    /\ log # <<>> =>
         /\ last.result =>
              /\ last.written \notin DOMAIN last.dir_before
              /\ DOMAIN dir = DOMAIN last.dir_before \cup {last.written}
              /\ dir[last.written] = last.content
              /\ \A n \in DOMAIN last.dir_before : dir[n] = last.dir_before[n]
         /\ (last.exc = "ValueError" \/ last.dup_of # None) => dir = last.dir_before
    /\ \A i, j \in 1..Len(log) :
         (i < j /\ log[i].written # None) => log[i].written # log[j].written

\* C8 witness: the candidate name was taken by a file from before the run and
\* the bytes went under a suffixed name
C8_Witness ==
    /\ log # <<>>
    /\ last.result
    /\ last.filename = a_png
    /\ last.written = a_1_png
    /\ a_png \in DOMAIN last.dir_before

\* C9: a fetch that ends with a false outcome leaves the DedupeIndex as it was
\* before the fetch.
C9_IndexOnlyOnSuccess ==
    (log # <<>> /\ ~last.result) => downloaded_hashes = last.hashes_before

\* C10: every entry hash -> filename of the DedupeIndex names a file of the
\* output directory whose content has that hash.
C10_IndexNamesTheFile ==
    \A h \in DOMAIN downloaded_hashes :
        /\ downloaded_hashes[h] \in DOMAIN dir
        /\ calculate_file_hash(dir[downloaded_hashes[h]]) = h

====
